---- MODULE Spec2Model ----
(***************************************************************************)
(* The caption/transcript merger (caption_merger.py), the caption endpoint *)
(* and job registry (main.py) and the Google Meet bot task (bot_logic.py). *)
(*                                                                         *)
(* Text is a sequence of one-character strings.  Positions in word lists   *)
(* (match_pos, current_pos, start_idx) are 0-based as in the Python code;  *)
(* TLA+ sequences are 1-based, so word p of the code is words[p + 1].      *)
(* A similarity ratio is the exact fraction [n |-> 2*matches, d |-> total  *)
(* length]; comparisons cross-multiply.                                    *)
(***************************************************************************)
EXTENDS Integers, Sequences, FiniteSets, TLC

(***************************************************************************)
(* Characters: str.lower, \w and \s of the re module, str.isspace.         *)
(***************************************************************************)
LowerChars ==
    {"a","b","c","d","e","f","g","h","i","j","k","l","m",
     "n","o","p","q","r","s","t","u","v","w","x","y","z"}

ToLower ==
    ("A" :> "a") @@ ("B" :> "b") @@ ("C" :> "c") @@ ("D" :> "d") @@
    ("E" :> "e") @@ ("F" :> "f") @@ ("G" :> "g") @@ ("H" :> "h") @@
    ("I" :> "i") @@ ("J" :> "j") @@ ("K" :> "k") @@ ("L" :> "l") @@
    ("M" :> "m") @@ ("N" :> "n") @@ ("O" :> "o") @@ ("P" :> "p") @@
    ("Q" :> "q") @@ ("R" :> "r") @@ ("S" :> "s") @@ ("T" :> "t") @@
    ("U" :> "u") @@ ("V" :> "v") @@ ("W" :> "w") @@ ("X" :> "x") @@
    ("Y" :> "y") @@ ("Z" :> "z")

DigitChars == {"0","1","2","3","4","5","6","7","8","9"}

IsSpace(c) == c \in {" ", "\n", "\t"}

\* "e_acute" stands for the one character U+00E9: a letter outside ASCII,
\* one byte in Latin-1 and two in UTF-8.
NonAsciiChars == {"e_acute"}

IsWordChar(c) ==
    \/ c \in LowerChars \/ c \in DOMAIN ToLower \/ c \in DigitChars \/ c = "_"
    \/ c \in NonAsciiChars

Lower(c) == IF c \in DOMAIN ToLower THEN ToLower[c] ELSE c

\* str.strip(): drop leading and trailing whitespace.
RECURSIVE LStrip(_)
LStrip(s) == IF s # <<>> /\ IsSpace(Head(s)) THEN LStrip(Tail(s)) ELSE s

RECURSIVE RStrip(_)
RStrip(s) ==
    IF s # <<>> /\ IsSpace(s[Len(s)]) THEN RStrip(SubSeq(s, 1, Len(s) - 1)) ELSE s

Strip(s) == RStrip(LStrip(s))

\* re.sub(r'\s+', ' ', text): every maximal run of whitespace becomes one space.
\* Of a run only its first character stays, as a space.
CollapseSpace(s) ==
    LET marked == [i \in 1..Len(s) |->
                      [char |-> IF IsSpace(s[i]) THEN " " ELSE s[i],
                       first |-> ~IsSpace(s[i]) \/ i = 1 \/ ~IsSpace(s[i - 1])]]
        kept == SelectSeq(marked, LAMBDA m : m.first)
    IN  [i \in 1..Len(kept) |-> kept[i].char]

\* clean_text: lower-case, remove every character that is neither \w nor \s,
\* collapse whitespace, strip.
clean_text(text) ==
    LET lowered == [i \in 1..Len(text) |-> Lower(text[i])]
        kept    == SelectSeq(lowered, LAMBDA c : IsWordChar(c) \/ IsSpace(c))
    IN  Strip(CollapseSpace(kept))

\* str.split(): the maximal runs of non-whitespace characters, in order.
Split(s) ==
    LET positions == [i \in 1..Len(s) |-> i]
        starts == SelectSeq(positions,
                            LAMBDA i : ~IsSpace(s[i]) /\ (i = 1 \/ IsSpace(s[i - 1])))
        ends == SelectSeq(positions,
                          LAMBDA i : ~IsSpace(s[i]) /\ (i = Len(s) \/ IsSpace(s[i + 1])))
    IN  [k \in 1..Len(starts) |-> SubSeq(s, starts[k], ends[k])]

\* ' '.join(words)
RECURSIVE Join(_)
Join(words) ==
    IF words = <<>> THEN <<>>
    ELSE IF Len(words) = 1 THEN words[1]
    ELSE words[1] \o <<" ">> \o Join(Tail(words))

(***************************************************************************)
(* difflib.SequenceMatcher(None, a, b).ratio() as find_best_match uses it: *)
(* no junk function, and autojunk only acts on sequences of 200 or more    *)
(* elements, which a window of caption length never is here.               *)
(***************************************************************************)
\* Length of the common run of a from i and b from j (1-based), inside the
\* ranges ending at ahi and bhi (inclusive).
RECURSIVE RunLen(_, _, _, _, _, _)
RunLen(a, b, i, j, ahi, bhi) ==
    IF i > ahi \/ j > bhi \/ a[i] # b[j] THEN 0
    ELSE 1 + RunLen(a, b, i + 1, j + 1, ahi, bhi)

\* find_longest_match: the longest block a[i..i+k-1] = b[j..j+k-1] within
\* a[alo..ahi], b[blo..bhi]; of the longest, the one starting earliest in a,
\* and of those the one starting earliest in b.
find_longest_match(a, b, alo, ahi, blo, bhi) ==
    LET cands == {<<i, j>> \in (alo..ahi) \X (blo..bhi) : a[i] = b[j]}
        size(p) == RunLen(a, b, p[1], p[2], ahi, bhi)
    IN  IF cands = {} THEN [i |-> alo, j |-> blo, size |-> 0]
        ELSE LET best == CHOOSE p \in cands :
                            \A q \in cands :
                                \/ size(p) > size(q)
                                \/ /\ size(p) = size(q)
                                   /\ \/ p[1] < q[1]
                                      \/ p[1] = q[1] /\ p[2] <= q[2]
             IN  [i |-> best[1], j |-> best[2], size |-> size(best)]

\* The number of matched elements over get_matching_blocks: the longest block,
\* then recursively the pieces to its left and to its right.
RECURSIVE Matches(_, _, _, _, _, _)
Matches(a, b, alo, ahi, blo, bhi) ==
    IF alo > ahi \/ blo > bhi THEN 0
    ELSE LET m == find_longest_match(a, b, alo, ahi, blo, bhi)
         IN  IF m.size = 0 THEN 0
             ELSE m.size
                  + Matches(a, b, alo, m.i - 1, blo, m.j - 1)
                  + Matches(a, b, m.i + m.size, ahi, m.j + m.size, bhi)

\* ratio(): 2.0 * matches / (len(a) + len(b)), and 1.0 when both are empty.
ratio(a, b) ==
    IF Len(a) + Len(b) = 0 THEN [n |-> 1, d |-> 1]
    ELSE [n |-> 2 * Matches(a, b, 1, Len(a), 1, Len(b)), d |-> Len(a) + Len(b)]

\* Comparisons of two ratios, as the floats compare.
Greater(x, y) == x.n * y.d > y.n * x.d
AtLeast(x, y) == x.n * y.d >= y.n * x.d

Zero == [n |-> 0, d |-> 1]


(***************************************************************************)
(* Bounds and the texts, caption events and file lines the model draws its *)
(* inputs from.                                                            *)
(***************************************************************************)
\* Longest captions file, in lines, that the library specification starts from.
MaxLines == 2

\* A search window ten words wider than the one find_best_match uses.
WindowSize_Wide == 50 + 10

\* window_size of find_best_match.
WindowSize == 50

DefaultThreshold == [n |-> 6, d |-> 10]

\* similarity_threshold values a caller of merge() may pass.
Thresholds == {DefaultThreshold, [n |-> 9, d |-> 10], [n |-> 5, d |-> 10]}

TextE2E ==
    <<"[","S","P","E","A","K","E","R","_","0","0","]"," ","[","0",".","0","0"," ",
      "-"," ","1","0",".","0","0","]","\n","H","e","l","l","o"," ","t","h","e","r",
      "e",","," ","e","v","e","r","y","o","n","e",".","\n","\n">>

TextPlain ==
    <<"H","e","l","l","o"," ","t","h","e","r","e",","," ","e","v","e","r","y","o",
      "n","e",".">>

TextBlank == <<"\n","\n">>

\* Two diarized blocks, the first from 20 s to 25 s.
TextTwoBlocks ==
    <<"[","S","P","E","A","K","E","R","_","0","0","]"," ","[","2","0",".","0",
      "0"," ","-"," ","2","5",".","0","0","]","\n","H","e","l","l","o"," ",
      "t","h","e","r","e","\n","\n","[","S","P","E","A","K","E","R","_","0",
      "1","]"," ","[","2","5",".","0","0"," ","-"," ","3","0",".","0","0","]",
      "\n","h","e","l","p","\n","\n">>

TextAccent == <<"c","a","f","e_acute">>

\* A transcript longer than the search window: 49 words "x", then "hello" as
\* word 49, "there" as word 50 and "everyone" as word 51 (counted from 0).
TextLong ==
    [i \in 1..98 |-> IF i % 2 = 1 THEN "x" ELSE " "]
    \o <<"h","e","l","l","o"," ","t","h","e","r","e"," ","e","v","e","r","y",
         "o","n","e">>

\* Caption records as json.loads returns them: key/value records, possibly
\* with keys missing.
CaptionHello == [speaker |-> "Alice", text |-> <<"h","e","l","l","o">>, timestamp |-> 1]
CaptionThere == [speaker |-> "Alice", text |-> <<"t","h","e","r","e">>, timestamp |-> 8]
CaptionHelp == [speaker |-> "Bob", text |-> <<"h","e","l","p">>, timestamp |-> 3]
CaptionTwoWords ==
    [speaker |-> "Bob", text |-> <<"H","e","l","l","o"," ","t","h","e","r","e">>,
     timestamp |-> 2]
CaptionPadded == [text |-> <<" ","z","z","z"," ">>, timestamp |-> 4]
CaptionNegative == [speaker |-> "Eve", text |-> <<"t","h","e","r","e">>, timestamp |-> -1]
CaptionNoKeys == [k \in {} |-> 0]

\* What the CaptionEvent model of the endpoint accepts: speaker, text, timestamp.
CaptionEvents == {CaptionHello, CaptionThere, CaptionHelp, CaptionTwoWords}

ObjectLine(c) == [kind |-> "object", value |-> c]
InvalidLine == [kind |-> "invalid", value |-> CaptionNoKeys]
BlankLine == [kind |-> "blank", value |-> CaptionNoKeys]

\* Lines a captions file may hold: a JSON object, text that is not JSON, or
\* a line of whitespace only.
Lines ==
    {ObjectLine(c) : c \in CaptionEvents \cup {CaptionPadded, CaptionNegative, CaptionNoKeys}}
    \cup {InvalidLine, BlankLine}

SeqsUpTo(S, n) == UNION {[1..k -> S] : k \in 0..n}

\* A file: whether it exists, what it holds and the encoding it was written in.
Absent == [exists |-> FALSE, content |-> <<>>, encoding |-> "utf-8"]
FileIn(content, encoding) == [exists |-> TRUE, content |-> content, encoding |-> encoding]
File(content) == FileIn(content, "utf-8")

CaptionsFiles == {Absent} \cup {File(ls) : ls \in SeqsUpTo(Lines, MaxLines)}

TranscriptFiles ==
    {Absent, FileIn(TextAccent, "latin-1")}
    \cup {File(t) : t \in {<<>>, TextBlank, TextE2E, TextPlain, TextTwoBlocks}}

(***************************************************************************)
(* State.                                                                  *)
(***************************************************************************)
VARIABLES
    captions_file,         \* outputs/<job_id>/captions.jsonl
    transcript_file,       \* outputs/<job_id>/transcript.txt
    merged_file,           \* outputs/<job_id>/merged_transcript.txt
    captions,              \* CaptionTranscriptMerger.captions
    transcript,            \* CaptionTranscriptMerger.transcript
    similarity_threshold,  \* argument of merge()
    merged_segments,       \* local of merge()
    current_pos,           \* local of merge(): the cursor
    idx,                   \* number of captions the loop of merge() has taken
    match_pos,             \* local of merge(), last iteration
    similarity,            \* local of merge(), last iteration
    branch,                \* what the last iteration did with its caption
    merge_result,          \* how merge_meeting_transcripts ended
    pc,                    \* position of the running task
    jobs,                  \* main.jobs, the job registry
    task,                  \* locals of run_bot_task, the platform it runs
                           \* for, what the meeting page shows, how many
                           \* captions the observer has forwarded and how
                           \* often the task has called the merge
    locale_encoding        \* the encoding open() uses when none is given

fileVars == <<captions_file, transcript_file, merged_file>>
mergerVars ==
    <<captions, transcript, similarity_threshold, merged_segments, current_pos,
      idx, match_pos, similarity, branch, merge_result>>
serviceVars == <<jobs, task, locale_encoding>>
vars == <<fileVars, mergerVars, pc, serviceVars>>

(***************************************************************************)
(* caption_merger.py                                                       *)
(***************************************************************************)
Get(d, k, default) == IF k \in DOMAIN d THEN d[k] ELSE default

\* json.loads raises on a line that is not JSON.
LoadRaises(file) ==
    file.exists /\ \E i \in 1..Len(file.content) : file.content[i].kind = "invalid"

\* open(transcript_path, 'r', encoding='utf-8').read() raises on bytes that are
\* not UTF-8: a character outside ASCII written in another encoding.
ReadRaises(file) ==
    /\ file.exists
    /\ file.encoding # "utf-8"
    /\ \E i \in 1..Len(file.content) : file.content[i] \in NonAsciiChars

\* [json.loads(line) for line in f if line.strip()]
LoadedCaptions(file) ==
    LET kept == SelectSeq(file.content, LAMBDA l : l.kind # "blank")
    IN  [i \in 1..Len(kept) |-> kept[i].value]

\* The loop of find_best_match over the positions start_idx..end_idx-1: a
\* strictly greater ratio replaces the best so far, which starts as
\* (start_idx, 0.0).  So the result is the first position whose ratio is the
\* greatest, and (start_idx, 0.0) when no ratio is above 0.
BestFrom(caption_clean, k, transcript_words, start_idx, end_idx) ==
    LET count == IF end_idx > start_idx THEN end_idx - start_idx ELSE 0
        \* similarities[n] is the ratio at position start_idx + n - 1.
        similarities ==
            SubSeq([n \in 1..count |->
                       ratio(caption_clean,
                             Join(SubSeq(transcript_words, start_idx + n,
                                         start_idx + n - 1 + k)))],
                   1, count)
        greatest == {n \in 1..count :
                        \A m \in 1..count : AtLeast(similarities[n], similarities[m])}
        first == CHOOSE n \in greatest : \A m \in greatest : n <= m
    IN  IF count = 0 \/ ~Greater(similarities[first], Zero)
        THEN [pos |-> start_idx, score |-> Zero]
        ELSE [pos |-> start_idx + first - 1, score |-> similarities[first]]

Min(a, b) == IF a <= b THEN a ELSE b

find_best_match(caption_text, transcript_words, start_idx) ==
    LET caption_clean == clean_text(caption_text)
        caption_words == Split(caption_clean)
        end_idx == Min(start_idx + WindowSize,
                       Len(transcript_words) - Len(caption_words))
    IN  IF caption_words = <<>> THEN [pos |-> start_idx, score |-> Zero]
        ELSE BestFrom(caption_clean, Len(caption_words), transcript_words,
                      start_idx, end_idx)

\* The walk over the original transcript.  word_idx, when the loop reaches
\* the character at the 0-based index char_idx, is the number of whitespace
\* characters before it that follow a non-whitespace character; the loop
\* appends the characters it reaches with match_pos <= word_idx <
\* match_pos + target_words and stops at the first one beyond.
Walk(text, pos, target_words) ==
    LET boundaries == {char_idx \in 1..(Len(text) - 1) :
                          IsSpace(text[char_idx + 1]) /\ ~IsSpace(text[char_idx])}
        word_idx(char_idx) == Cardinality({b \in boundaries : b < char_idx})
        marked == [i \in 1..Len(text) |->
                      [char |-> text[i], word_idx |-> word_idx(i - 1)]]
        matched_words ==
            SelectSeq(marked, LAMBDA m : /\ pos <= m.word_idx
                                         /\ m.word_idx < pos + target_words)
    IN  [i \in 1..Len(matched_words) |-> matched_words[i].char]

matched_text(text, pos, word_count) == Strip(Walk(text, pos, word_count))

\* An indicator whose lower cut is 0.7.
confidence_indicator_CutAt7(confidence) ==
    IF AtLeast(confidence, [n |-> 8, d |-> 10]) THEN "full"
    ELSE IF AtLeast(confidence, [n |-> 7, d |-> 10]) THEN "partial"
    ELSE "low"

\* confidence_indicator: "full" is the check mark, "partial" the tilde and
\* "low" the question mark.
confidence_indicator(confidence) ==
    IF AtLeast(confidence, [n |-> 8, d |-> 10]) THEN "full"
    ELSE IF AtLeast(confidence, [n |-> 6, d |-> 10]) THEN "partial"
    ELSE "low"

OutLine(w, speaker, text, glyph) ==
    [w |-> w, speaker |-> speaker, text |-> text, glyph |-> glyph]

Banner ==
    <<OutLine("rule", "", <<>>, ""), OutLine("title", "", <<>>, ""),
      OutLine("rule", "", <<>>, "")>>

\* The body of the output: a header when the speaker changes, then the text
\* with its confidence indicator.  None is the initial current_speaker.
None == "None"

\* A header before every segment.
SpeakerHeader_Always(speaker, current_speaker) ==
    <<OutLine("header", speaker, <<>>, "")>>

\* merge, lines 170-172: the header is written when the speaker of the segment
\* is not current_speaker.
SpeakerHeader(speaker, current_speaker) ==
    IF speaker # current_speaker
    THEN <<OutLine("header", speaker, <<>>, "")>>
    ELSE <<>>

RECURSIVE Body(_, _)
Body(segments, current_speaker) ==
    IF segments = <<>> THEN <<>>
    ELSE LET segment == Head(segments)
             header == SpeakerHeader(segment.speaker, current_speaker)
             line == OutLine("body", "", segment.text,
                             confidence_indicator(segment.confidence))
         IN  header \o <<line>> \o Body(Tail(segments), segment.speaker)

\* load_data: read both files; a line that is not JSON raises out of
\* merge_meeting_transcripts before the transcript is read, and so does a
\* transcript that does not decode.
LoadData ==
    /\ pc = "load_data"
    /\ IF LoadRaises(captions_file) \/ ReadRaises(transcript_file)
       THEN /\ merge_result' = "raised"
            /\ pc' = "returned"
            /\ UNCHANGED <<captions, transcript>>
       ELSE /\ captions' = IF captions_file.exists
                           THEN LoadedCaptions(captions_file) ELSE <<>>
            /\ transcript' = IF transcript_file.exists
                             THEN Strip(transcript_file.content) ELSE <<>>
            /\ pc' = "merge"
            /\ UNCHANGED merge_result
    /\ UNCHANGED <<fileVars, similarity_threshold, merged_segments, current_pos,
                   idx, match_pos, similarity, branch, serviceVars>>

\* merge, lines 83-91: the guard and the set-up of the loop.
MergeEnter ==
    /\ pc = "merge"
    /\ IF captions = <<>> \/ transcript = <<>>
       THEN /\ merge_result' = "false"
            /\ pc' = "returned"
            /\ UNCHANGED <<merged_segments, current_pos, idx>>
       ELSE /\ merged_segments' = <<>>
            /\ current_pos' = 0
            /\ idx' = 0
            /\ pc' = "loop"
            /\ UNCHANGED merge_result
    /\ UNCHANGED <<fileVars, captions, transcript, similarity_threshold,
                   match_pos, similarity, branch, serviceVars>>

\* merge, lines 138-153: the text of the segment a caption yields.  A match
\* takes the text recovered from the transcript (the caption's text when that
\* is empty), a caption below the threshold keeps its own text.
SegmentText(accepted, recovered, caption_text) ==
    IF accepted
    THEN IF recovered # <<>> THEN recovered ELSE caption_text
    ELSE caption_text

NextCursor_AlwaysAdvance(accepted, cursor, pos, word_count) == pos + word_count

\* merge, lines 145-153: the cursor after a caption.  Only a match moves it.
NextCursor(accepted, cursor, pos, word_count) ==
    IF accepted THEN pos + word_count ELSE cursor

\* merge, lines 93-153: one iteration of the loop over the captions.
MergeCaption ==
    /\ pc = "loop"
    /\ idx < Len(captions)
    /\ LET caption == captions[idx + 1]
           speaker == Get(caption, "speaker", "Unknown")
           caption_text == Strip(Get(caption, "text", <<>>))
           timestamp == Get(caption, "timestamp", "")
           transcript_words == Split(clean_text(transcript))
           found == find_best_match(caption_text, transcript_words, current_pos)
           accepted == AtLeast(found.score, similarity_threshold)
           word_count == Len(Split(clean_text(caption_text)))
           recovered == matched_text(transcript, found.pos, word_count)
       IN  IF caption_text = <<>>
           THEN /\ branch' = "skipped"
                /\ UNCHANGED <<merged_segments, current_pos, match_pos, similarity>>
           ELSE /\ match_pos' = found.pos
                /\ similarity' = found.score
                /\ merged_segments' =
                       Append(merged_segments,
                              [speaker |-> speaker,
                               text |-> SegmentText(accepted, recovered, caption_text),
                               timestamp |-> timestamp,
                               confidence |-> found.score])
                /\ current_pos' = NextCursor(accepted, current_pos, found.pos, word_count)
                /\ branch' = IF accepted THEN "matched" ELSE "low"
    /\ idx' = idx + 1
    /\ UNCHANGED <<fileVars, captions, transcript, similarity_threshold,
                   merge_result, pc, serviceVars>>

\* A merge that opens the output for appending.
MergeWrite_Append ==
    /\ pc = "loop"
    /\ idx = Len(captions)
    /\ merged_file' =
           File(merged_file.content \o Banner \o Body(merged_segments, None))
    /\ merge_result' = "true"
    /\ pc' = "returned"
    /\ UNCHANGED <<captions_file, transcript_file, captions, transcript,
                   similarity_threshold, merged_segments, current_pos, idx,
                   match_pos, similarity, branch, serviceVars>>

\* A merge that gives up when a caption stayed below the threshold.
MergeWrite_FailOnLow ==
    /\ pc = "loop"
    /\ idx = Len(captions)
    /\ IF \E i \in 1..Len(merged_segments) :
              ~AtLeast(merged_segments[i].confidence, similarity_threshold)
       THEN merge_result' = "false" /\ UNCHANGED merged_file
       ELSE /\ merged_file' = File(Banner \o Body(merged_segments, None))
            /\ merge_result' = "true"
    /\ pc' = "returned"
    /\ UNCHANGED <<captions_file, transcript_file, captions, transcript,
                   similarity_threshold, merged_segments, current_pos, idx,
                   match_pos, similarity, branch, serviceVars>>

\* merge, lines 155-180: open the output for writing, write banner and body,
\* return True.
MergeWrite ==
    /\ pc = "loop"
    /\ idx = Len(captions)
    /\ merged_file' = File(Banner \o Body(merged_segments, None))
    /\ merge_result' = "true"
    /\ pc' = "returned"
    /\ UNCHANGED <<captions_file, transcript_file, captions, transcript,
                   similarity_threshold, merged_segments, current_pos, idx,
                   match_pos, similarity, branch, serviceVars>>

(***************************************************************************)
(* The merger used on its own: CaptionTranscriptMerger(captions_path,      *)
(* transcript_path), load_data(), merge(output_path, similarity_threshold) *)
(* on whatever the job directory holds.  merge_meeting_transcripts is this *)
(* with the default threshold.                                             *)
(***************************************************************************)
OldOutput == File(<<OutLine("old", "", <<>>, "")>>)

NoJobs == [j \in {} |-> 0]
IdleTask ==
    [platform |-> "none", recorder |-> "none", returning |-> FALSE,
     page |-> "none", ended_detected |-> FALSE, forwarded |-> 0,
     merge_calls |-> 0, merge_success |-> FALSE,
     final_transcript_path |-> "none"]

MergerInit ==
    /\ captions_file \in CaptionsFiles
    /\ transcript_file \in TranscriptFiles
    /\ merged_file \in {Absent, OldOutput}
    /\ similarity_threshold \in Thresholds
    /\ captions = <<>>
    /\ transcript = <<>>
    /\ merged_segments = <<>>
    /\ current_pos = 0
    /\ idx = 0
    /\ match_pos = 0
    /\ similarity = Zero
    /\ branch = "none"
    /\ merge_result = "none"
    /\ pc = "load_data"
    /\ jobs = NoJobs
    /\ task = [IdleTask EXCEPT !.merge_calls = 1]
    /\ locale_encoding = "utf-8"

\* A merge over a transcript longer than the search window.
WindowCaptionsFiles ==
    {File(ls) : ls \in SeqsUpTo({ObjectLine(c) : c \in CaptionEvents \cup {CaptionPadded}},
                                MaxLines)}

WindowInit ==
    /\ captions_file \in WindowCaptionsFiles
    /\ transcript_file \in {File(TextLong), File(TextPlain)}
    /\ merged_file = Absent
    /\ similarity_threshold \in Thresholds
    /\ captions = <<>>
    /\ transcript = <<>>
    /\ merged_segments = <<>>
    /\ current_pos = 0
    /\ idx = 0
    /\ match_pos = 0
    /\ similarity = Zero
    /\ branch = "none"
    /\ merge_result = "none"
    /\ pc = "load_data"
    /\ jobs = NoJobs
    /\ task = [IdleTask EXCEPT !.merge_calls = 1]
    /\ locale_encoding = "utf-8"

MergerNext == LoadData \/ MergeEnter \/ MergeCaption \/ MergeWrite

MergerSpec == MergerInit /\ [][MergerNext]_vars

WindowSpec == WindowInit /\ [][MergerNext]_vars

(***************************************************************************)
(* The merger run again on the same job directory: the command line of     *)
(* caption_merger.py, or merge_meeting_transcripts, called once more with  *)
(* the same paths after it has returned.                                   *)
(***************************************************************************)
\* How many times the merge is run on one job directory.
MaxRuns == 2

\* A new CaptionTranscriptMerger: nothing loaded, nothing merged.
NewMerger ==
    /\ captions' = <<>>
    /\ transcript' = <<>>
    /\ merged_segments' = <<>>
    /\ current_pos' = 0
    /\ idx' = 0
    /\ match_pos' = 0
    /\ similarity' = Zero
    /\ branch' = "none"
    /\ merge_result' = "none"

\* __main__, lines 194-203: another run on the same files.
MergeAgain ==
    /\ pc = "returned"
    /\ task.merge_calls < MaxRuns
    /\ NewMerger
    /\ task' = [task EXCEPT !.merge_calls = @ + 1]
    /\ pc' = "load_data"
    /\ UNCHANGED <<fileVars, similarity_threshold, jobs, locale_encoding>>

RerunInit ==
    /\ MergerInit
    /\ similarity_threshold = DefaultThreshold
    /\ merged_file = Absent

RerunNext == MergerNext \/ MergeAgain

RerunSpec == RerunInit /\ [][RerunNext]_vars

(***************************************************************************)
(* The service: the job registry and the endpoints of main.py, and the     *)
(* task of bot_logic.py (Google Meet), teams_bot_logic.py or               *)
(* zoom_bot_logic.py.  The task and the endpoints run on one event loop,   *)
(* so an endpoint runs only while the task is at an await (or has not      *)
(* started, or has returned).  Line numbers are those of bot_logic.py      *)
(* unless a platform is named.                                             *)
(***************************************************************************)
\* Longest captions file, in lines, that the caption endpoint builds.
MaxCaptions == 2

\* The job id start_meeting draws.
JobId == "job1"

\* Texts the speech-to-text service may return.
SttTexts == {<<>>, TextE2E, TextPlain, TextAccent}

Encodings == {"utf-8", "latin-1"}

Status(j) == IF j \in DOMAIN jobs THEN jobs[j].status ELSE "none"

SetJob(record) == jobs' = [j \in DOMAIN jobs \cup {JobId} |->
                              IF j = JobId THEN record ELSE jobs[j]]

OnlyStatus(status) == [status |-> status]
Failed(error) == [status |-> "failed", error |-> error]

\* Positions of run_bot_task at which it awaits, and the positions before it
\* starts and after it returns.
AwaitPoints ==
    {"idle", "task_start", "launch", "navigate", "join", "monitor", "finally",
     "upload", "workflow", "task_done"}

\* get_platform: the platforms start_meeting schedules a task for.
Platforms == {"google", "teams", "zoom"}

\* start_meeting: a new job, pending, and the task of the platform scheduled.
StartMeeting ==
    /\ pc = "idle"
    /\ SetJob(OnlyStatus("pending"))
    /\ \E platform \in Platforms : task' = [task EXCEPT !.platform = platform]
    /\ pc' = "task_start"
    /\ UNCHANGED <<fileVars, mergerVars, locale_encoding>>

\* A stop endpoint that sets every job of the registry to stopping.
StopMeeting_Always ==
    /\ pc \in AwaitPoints
    /\ IF JobId \in DOMAIN jobs
       THEN jobs' = [jobs EXCEPT ![JobId].status = "stopping"]
       ELSE UNCHANGED jobs
    /\ UNCHANGED <<fileVars, mergerVars, pc, task, locale_encoding>>

\* stop_meeting: an active job is set to stopping; the record of any other job
\* is left as it is, and a job that is not in the registry is not found.
StopMeeting ==
    /\ pc \in AwaitPoints
    /\ IF Status(JobId) \in {"starting_browser", "navigating", "recording"}
       THEN jobs' = [jobs EXCEPT ![JobId].status = "stopping"]
       ELSE UNCHANGED jobs
    /\ UNCHANGED <<fileVars, mergerVars, pc, task, locale_encoding>>

\* A caption endpoint that opens the captions file for writing.
ReceiveCaptions_Truncate ==
    /\ pc \in AwaitPoints
    /\ \E event \in CaptionEvents :
          IF JobId \in DOMAIN jobs
          THEN /\ Len(captions_file.content) < MaxCaptions
               /\ captions_file' = File(<<ObjectLine(event)>>)
          ELSE UNCHANGED captions_file
    /\ UNCHANGED <<transcript_file, merged_file, mergerVars, pc, serviceVars>>

\* receive_captions: the event of a job in the registry is appended to its
\* captions file as one line of JSON; for any other job nothing is written.
ReceiveCaptions ==
    /\ pc \in AwaitPoints
    /\ \E event \in CaptionEvents :
          IF JobId \in DOMAIN jobs
          THEN /\ Len(captions_file.content) < MaxCaptions
               /\ captions_file' =
                      File(Append(captions_file.content, ObjectLine(event)))
          ELSE UNCHANGED captions_file
    /\ UNCHANGED <<transcript_file, merged_file, mergerVars, pc, serviceVars>>

\* run_bot_task, lines 49-62: without an ffmpeg command the job fails at once.
TaskStart ==
    /\ pc = "task_start"
    /\ \E linux \in BOOLEAN :
          IF linux
          THEN SetJob(OnlyStatus("starting_browser")) /\ pc' = "launch"
          ELSE SetJob(Failed("Unsupported OS")) /\ pc' = "task_done"
    /\ UNCHANGED <<fileVars, mergerVars, task, locale_encoding>>

\* lines 63-98: the browser is launched; a failure ends the task, otherwise
\* the job is navigating.
Launch ==
    /\ pc = "launch"
    /\ \E ok \in BOOLEAN :
          IF ok
          THEN SetJob(OnlyStatus("navigating")) /\ pc' = "navigate"
          ELSE SetJob(Failed("Failed to launch browser")) /\ pc' = "task_done"
    /\ UNCHANGED <<fileVars, mergerVars, task, locale_encoding>>

\* The error of the outer except clause: line 459, teams line 231, zoom
\* line 411.
MeetingError ==
    IF task.platform = "zoom" THEN "An error occurred"
    ELSE "An error occurred in the meeting"

\* lines 99-122, teams lines 71-131, zoom lines 77-289: the page is opened and
\* the join button awaited; then the job is recording and the recorder
\* started.  An exception marks the job failed and goes to the finally block.
\* The Zoom task returns after the finally block when it finds no join button
\* or the search for it raises.
Navigate ==
    /\ pc = "navigate"
    /\ \E outcome \in {"ok", "error", "no_join_button", "join_error"} :
          /\ outcome \in {"no_join_button", "join_error"} => task.platform = "zoom"
          /\ IF outcome = "ok"
             THEN /\ SetJob(OnlyStatus("recording"))
                  /\ task' = [task EXCEPT !.recorder = "running"]
                  /\ pc' = "join"
             ELSE IF outcome = "error"
             THEN /\ SetJob(Failed(MeetingError))
                  /\ pc' = "finally"
                  /\ UNCHANGED task
             ELSE /\ SetJob(Failed(IF outcome = "no_join_button"
                                   THEN "Could not find Join button"
                                   ELSE "Join button error"))
                  /\ task' = [task EXCEPT !.returning = TRUE]
                  /\ pc' = "finally"
    /\ UNCHANGED <<fileVars, mergerVars, locale_encoding>>

\* lines 123-429, teams lines 132-136, zoom lines 291-330: joining, and for
\* Google Meet enabling captions and injecting the observer.  The Zoom task
\* returns after the finally block when the click on the join button raises.
Join_ ==
    /\ pc = "join"
    /\ \E outcome \in {"ok", "error", "join_error"} :
          /\ outcome = "join_error" => task.platform = "zoom"
          /\ IF outcome = "ok"
             THEN /\ pc' = "monitor"
                  /\ task' = [task EXCEPT !.page = "meeting"]
                  /\ UNCHANGED jobs
             ELSE IF outcome = "error"
             THEN /\ SetJob(Failed(MeetingError))
                  /\ pc' = "finally"
                  /\ UNCHANGED task
             ELSE /\ SetJob(Failed("Join button error"))
                  /\ task' = [task EXCEPT !.returning = TRUE]
                  /\ pc' = "finally"
    /\ UNCHANGED <<fileVars, mergerVars, locale_encoding>>

\* What the meeting page shows to a round of the monitoring loop: "meeting"
\* while others are present; "alone" when the participant count reads one;
\* "ended" when the page text says the meeting has ended; "gone" when the
\* participants control is no longer there; "error" when a call on the page
\* raises; "broken" when the screenshot raises as well.
PagesOver == {"alone", "ended", "gone"}
PagesFaulty == {"error", "broken"}

\* The meeting ends: the page shows it in one of three ways.
MeetingEnds ==
    /\ pc = "monitor"
    /\ task.page \in {"meeting", "error"}
    /\ \E page \in PagesOver : task' = [task EXCEPT !.page = page]
    /\ UNCHANGED <<fileVars, mergerVars, pc, jobs, locale_encoding>>

\* Calls on the page start to raise.
PageFails ==
    /\ pc = "monitor"
    /\ task.page = "meeting"
    /\ \E page \in PagesFaulty : task' = [task EXCEPT !.page = page]
    /\ UNCHANGED <<fileVars, mergerVars, pc, jobs, locale_encoding>>

\* ffmpeg exits by itself: at the latest after MAX_MEETING_DURATION_SECONDS.
RecorderExits ==
    /\ pc = "monitor"
    /\ task.recorder = "running"
    /\ task' = [task EXCEPT !.recorder = "exited"]
    /\ UNCHANGED <<fileVars, mergerVars, pc, jobs, locale_encoding>>

\* lines 432-456: one round of the monitoring loop of the Google Meet task.
\* It ends when the recorder has exited, when the job is stopping, when one
\* participant is left or the count cannot be read (TimeoutError,
\* AttributeError); any other exception marks the job failed.
MonitorGoogle ==
    IF task.recorder # "running"
       \/ Status(JobId) = "stopping"
       \/ task.page \in PagesOver
    THEN pc' = "finally" /\ UNCHANGED <<jobs, task>>
    ELSE IF task.page \in PagesFaulty
    THEN /\ SetJob(Failed(MeetingError))
         /\ pc' = "finally"
         /\ UNCHANGED task
    ELSE UNCHANGED <<pc, jobs, task>>

\* teams lines 138-228: one round of the monitoring loop of the Teams task.
\* It ends when the job is stopping or the participant count is one or less.
\* On a phrase that says the meeting has ended the round prints that it
\* leaves and breaks out of the loop over the phrases only (lines 168-172):
\* the while loop goes on.  Without a participants button the count stays at
\* its default of 2.  An exception of the round is caught in the loop, which
\* goes on, unless the screenshot taken in the handler raises too: that
\* marks the job failed.  The recorder is not looked at.
MonitorTeams ==
    IF Status(JobId) = "stopping" \/ task.page = "alone"
    THEN pc' = "finally" /\ UNCHANGED <<jobs, task>>
    ELSE IF task.page = "ended"
    THEN /\ task' = [task EXCEPT !.ended_detected = TRUE]
         /\ UNCHANGED <<pc, jobs>>
    ELSE IF task.page = "broken"
    THEN /\ SetJob(Failed(MeetingError))
         /\ pc' = "finally"
         /\ UNCHANGED task
    ELSE UNCHANGED <<pc, jobs, task>>

\* zoom lines 333-408: one round of the monitoring loop of the Zoom task.  It
\* ends when the job is stopping or the participant count is one or less;
\* without a participants button the count stays at its default of 2.
\* Exceptions as in the Teams task.
MonitorZoom ==
    IF Status(JobId) = "stopping" \/ task.page = "alone"
    THEN pc' = "finally" /\ UNCHANGED <<jobs, task>>
    ELSE IF task.page = "broken"
    THEN /\ SetJob(Failed(MeetingError))
         /\ pc' = "finally"
         /\ UNCHANGED task
    ELSE UNCHANGED <<pc, jobs, task>>

Monitor ==
    /\ pc = "monitor"
    /\ IF task.platform = "google" THEN MonitorGoogle
       ELSE IF task.platform = "teams" THEN MonitorTeams
       ELSE MonitorZoom
    /\ UNCHANGED <<fileVars, mergerVars, locale_encoding>>

\* The timestamp of the payload the injected observer sends: the string of
\* new Date().toISOString(), which is not the text of a number.
IsoTimestamp == [json |-> "string", numeric |-> FALSE]

\* CaptionEvent, timestamp: float: a JSON number or a string that is the
\* text of a number validates; any other value is rejected with status 422
\* before receive_captions runs.
FloatField(value) == value.json = "number" \/ value.numeric

\* sendCaption, line 343: the timestamp of the observer's payload.
ObserverTimestamp == IsoTimestamp

\* sendCaption, onCaptionReceived, handle_caption_event (lines 75-87,
\* 321-349): the observer of the Google Meet page forwards a caption, which
\* is posted to the caption endpoint; the endpoint saves it when the payload
\* validates and the job is in the registry.
HandleCaptionEvent ==
    /\ pc = "monitor"
    /\ task.platform = "google"
    /\ task.forwarded < MaxCaptions
    /\ \E event \in CaptionEvents :
          LET payload == [speaker |-> event.speaker, text |-> event.text,
                          timestamp |-> ObserverTimestamp]
          IN  IF JobId \in DOMAIN jobs /\ FloatField(payload.timestamp)
              THEN /\ Len(captions_file.content) < MaxCaptions
                   /\ captions_file' =
                          File(Append(captions_file.content, ObjectLine(event)))
              ELSE UNCHANGED captions_file
    /\ task' = [task EXCEPT !.forwarded = @ + 1]
    /\ UNCHANGED <<transcript_file, merged_file, mergerVars, pc, jobs,
                   locale_encoding>>

\* lines 461-479, teams lines 233-244, zoom lines 414-458: the recorder is
\* stopped, the call left, the browser closed.  A task that was returning has
\* returned.
Finally ==
    /\ pc = "finally"
    /\ task' = [task EXCEPT
                   !.recorder = IF task.recorder = "running" THEN "exited"
                                ELSE task.recorder,
                   !.page = "none"]
    /\ pc' = IF task.returning THEN "task_done" ELSE "post"
    /\ UNCHANGED <<fileVars, mergerVars, jobs, locale_encoding>>

\* lines 482-483 and 527-528, teams lines 246-247 and 266-267, zoom lines
\* 460-461 and 480-481: with a recording of more than 4096 bytes (1024 for
\* Teams and Zoom) the job is transcribing, otherwise it fails.  Only a
\* recorder that ran leaves one.
PostProcess ==
    /\ pc = "post"
    /\ \E audio_ok \in BOOLEAN :
          /\ audio_ok => task.recorder # "none"
          /\ IF audio_ok
             THEN SetJob(OnlyStatus("transcribing")) /\ pc' = "transcribe"
             ELSE /\ SetJob(Failed("Audio recording was empty or failed"))
                  /\ pc' = "task_done"
    /\ UNCHANGED <<fileVars, mergerVars, task, locale_encoding>>

\* transcribe_audio and lines 484-487, 525-526: the text of the service is
\* written to the transcript file in the locale's encoding and the job of the
\* Google Meet task is merging_transcripts.  The Teams and Zoom tasks (teams
\* lines 248-251, zoom lines 462-465) go on to summarize the transcript as it
\* is.  A failed transcription fails the job.
Transcribe ==
    /\ pc = "transcribe"
    /\ \/ \E text \in SttTexts :
             /\ transcript_file' = FileIn(text, locale_encoding)
             /\ IF task.platform = "google"
                THEN /\ SetJob(OnlyStatus("merging_transcripts"))
                     /\ pc' = "merge_call"
                     /\ UNCHANGED task
                ELSE /\ SetJob(OnlyStatus("summarizing"))
                     /\ task' = [task EXCEPT
                                    !.final_transcript_path = "transcript.txt"]
                     /\ pc' = "upload"
       \/ /\ SetJob(Failed("Transcription failed"))
          /\ pc' = "task_done"
          /\ UNCHANGED <<transcript_file, task>>
    /\ UNCHANGED <<captions_file, merged_file, mergerVars, locale_encoding>>

\* line 493 and merge_meeting_transcripts: a new merger on the files of the
\* job, merged with the default threshold.
MergeCall ==
    /\ pc = "merge_call"
    /\ NewMerger
    /\ similarity_threshold' = DefaultThreshold
    /\ task' = [task EXCEPT !.merge_calls = @ + 1]
    /\ pc' = "load_data"
    /\ UNCHANGED <<fileVars, jobs, locale_encoding>>

\* lines 494-502: the transcript to summarize.  The merged one on success, the
\* one of the speech-to-text service when the merge returned false or raised.
FinalTranscriptPath(result) ==
    IF result = "true" THEN "merged_transcript.txt" ELSE "transcript.txt"

\* A merge whose failure fails the job.
StatusAfterMerge_FailOnFalse(result) ==
    IF result = "true" THEN OnlyStatus("summarizing") ELSE Failed("Merge failed")

\* line 505: the record of the job after the merge, whatever it returned.
StatusAfterMerge(result) == OnlyStatus("summarizing")

\* lines 494-510: the result of the merge is taken, the job is summarizing and
\* the upload of the final transcript awaited.
AfterMerge ==
    /\ pc = "returned"
    /\ task' = [task EXCEPT !.merge_success = (merge_result = "true"),
                            !.final_transcript_path = FinalTranscriptPath(merge_result)]
    /\ SetJob(StatusAfterMerge(merge_result))
    /\ pc' = "upload"
    /\ UNCHANGED <<fileVars, mergerVars, locale_encoding>>

\* lines 510-524: upload_file gives a file id or None.
Upload ==
    /\ pc = "upload"
    /\ \E file_id \in BOOLEAN :
          IF file_id
          THEN pc' = "workflow" /\ UNCHANGED jobs
          ELSE /\ SetJob(Failed("File upload for summarization failed."))
               /\ pc' = "task_done"
    /\ UNCHANGED <<fileVars, mergerVars, task, locale_encoding>>

\* A record that names the merged transcript whatever the merge returned.
Completed_AlwaysMerged ==
    [status |-> "completed",
     transcript_path |-> "transcript.txt",
     merged_transcript_path |-> "merged_transcript.txt",
     summary_path |-> "summary.pdf"]

\* lines 515-520, teams line 259, zoom line 473: the record of a completed
\* job.  Only the Google Meet task names a merged transcript.
Completed ==
    IF task.platform = "google"
    THEN [status |-> "completed",
          transcript_path |-> "transcript.txt",
          merged_transcript_path |->
              IF task.merge_success THEN "merged_transcript.txt" ELSE "None",
          summary_path |-> "summary.pdf"]
    ELSE [status |-> "completed",
          transcript_path |-> "transcript.txt",
          summary_path |-> "summary.pdf"]

\* lines 513-522: run_workflow succeeds and the job is completed, or fails it.
Workflow ==
    /\ pc = "workflow"
    /\ \E ok \in BOOLEAN :
          IF ok
          THEN SetJob(Completed)
          ELSE SetJob(Failed("Summarization failed."))
    /\ pc' = "task_done"
    /\ UNCHANGED <<fileVars, mergerVars, task, locale_encoding>>

Init ==
    /\ captions_file = Absent
    /\ transcript_file = Absent
    /\ merged_file = Absent
    /\ similarity_threshold = DefaultThreshold
    /\ captions = <<>>
    /\ transcript = <<>>
    /\ merged_segments = <<>>
    /\ current_pos = 0
    /\ idx = 0
    /\ match_pos = 0
    /\ similarity = Zero
    /\ branch = "none"
    /\ merge_result = "none"
    /\ pc = "idle"
    /\ jobs = NoJobs
    /\ task = IdleTask
    /\ locale_encoding \in Encodings

Next ==
    \/ StartMeeting \/ StopMeeting \/ ReceiveCaptions
    \/ MeetingEnds \/ PageFails \/ RecorderExits \/ HandleCaptionEvent
    \/ TaskStart \/ Launch \/ Navigate \/ Join_ \/ Monitor \/ Finally
    \/ PostProcess \/ Transcribe \/ MergeCall
    \/ LoadData \/ MergeEnter \/ MergeCaption \/ MergeWrite
    \/ AfterMerge \/ Upload \/ Workflow

Spec == Init /\ [][Next]_vars

\* The steps of the bot task.
TaskStep ==
    \/ TaskStart \/ Launch \/ Navigate \/ Join_ \/ Monitor \/ Finally
    \/ PostProcess \/ Transcribe \/ MergeCall
    \/ LoadData \/ MergeEnter \/ MergeCaption \/ MergeWrite
    \/ AfterMerge \/ Upload \/ Workflow

(***************************************************************************)
(* Properties of the merger, checked under MergerSpec.                     *)
(***************************************************************************)
Returned == pc = "returned"

Last(seq) == seq[Len(seq)]

\* The body lines of the merged output, in order.
BodyLines == SelectSeq(merged_file.content, LAMBDA l : l.w = "body")

\* A fresh output begins with the banner; Absent and OldOutput are what the
\* output path held before the merge.
OutputUntouched == merged_file \in {Absent, OldOutput}

\* C1: when the captions file or the transcript file is absent, the merge
\* returns false and the merged output is neither created nor modified.
C1_MissingInputReturnsFalse ==
    (Returned /\ (~captions_file.exists \/ ~transcript_file.exists))
        => (merge_result = "false" /\ OutputUntouched)

\* C2: for the captions Alice "hello" at 1.0 and Alice "there" at 8.0 and the
\* transcript of one SPEAKER_00 block "Hello there, everyone.", the merge
\* succeeds and the output has the header of Alice followed by the segment
\* text, and no header of SPEAKER_00.
C2_EndToEndAlice ==
    (/\ Returned
     /\ similarity_threshold = DefaultThreshold
     /\ captions_file = File(<<ObjectLine(CaptionHello), ObjectLine(CaptionThere)>>)
     /\ transcript_file = File(TextE2E))
        => /\ merge_result = "true"
           /\ merged_file.exists
           /\ \E i \in 1..Len(merged_file.content) :
                 /\ merged_file.content[i].w = "header"
                 /\ merged_file.content[i].speaker = "Alice"
                 /\ \E j \in (i + 1)..Len(merged_file.content) :
                       /\ merged_file.content[j].w = "body"
                       /\ merged_file.content[j].text = TextPlain
           /\ \A i \in 1..Len(merged_file.content) :
                 ~(merged_file.content[i].w = "header"
                   /\ merged_file.content[i].speaker = "SPEAKER_00")

\* C3: whatever the captions file and the transcript file hold, the merge ends
\* with a boolean and never raises.
C3_NeverRaises == Returned => merge_result \in {"true", "false"}

\* A line that carries a caption: a JSON object with a text that is not blank.
CarriesCaption(line) ==
    /\ line.kind = "object"
    /\ Strip(Get(line.value, "text", <<>>)) # <<>>

\* C4: when the captions file is present and holds no valid caption event, the
\* merge returns false and writes no output.  Stated in the form that a raised
\* error (C3) does not break: the merge does not return true and writes no
\* output.
C4_NoValidEventReturnsFalse ==
    (/\ Returned
     /\ captions_file.exists
     /\ \A i \in 1..Len(captions_file.content) :
           ~CarriesCaption(captions_file.content[i]))
        => (merge_result # "true" /\ OutputUntouched)

\* The opening of a diarized block header, "[SPEAKER_", which both transcript
\* formats need: a text without it has no segment.
SpeakerTag == <<"[","S","P","E","A","K","E","R","_">>

HasSpeakerTag(text) ==
    \E i \in 1..Len(text) :
        /\ i + Len(SpeakerTag) - 1 <= Len(text)
        /\ SubSeq(text, i, i + Len(SpeakerTag) - 1) = SpeakerTag

\* C5: when the transcript file is present and holds no diarized segment, the
\* merge returns false.  Stated in the form that neither a raised error (C3)
\* nor a captions file without captions (C4) breaks: with a caption to merge,
\* the merge does not return true.
C5_NoSegmentReturnsFalse ==
    (/\ Returned
     /\ transcript_file.exists
     /\ ~HasSpeakerTag(transcript_file.content)
     /\ \E i \in 1..Len(captions_file.content) :
           CarriesCaption(captions_file.content[i]))
        => merge_result # "true"

\* The caption the loop took last, the number of its normalized words, and
\* the normalized words of the transcript.
LastCaptionText == Strip(Get(captions[idx], "text", <<>>))
LastWordCount == Len(Split(clean_text(LastCaptionText)))
TranscriptWords == Split(clean_text(transcript))

\* C6: when the best ratio of a caption reaches the threshold, the text put
\* out for it is the span of the original transcript that was matched (its
\* normalized form is the matched window of normalized words), and the cursor
\* is the match position plus the caption's word count.
C6_MatchedSpanReplacesCaption ==
    (pc \in {"loop", "returned"} /\ branch = "matched")
        => /\ clean_text(Last(merged_segments).text)
                = Join(SubSeq(TranscriptWords, match_pos + 1, match_pos + LastWordCount))
           /\ current_pos = match_pos + LastWordCount

\* The captions the loop does not skip, in order: one segment and one body
\* line each.
Spoken == SelectSeq(captions, LAMBDA c : Strip(Get(c, "text", <<>>)) # <<>>)

BelowThreshold(i) == ~AtLeast(merged_segments[i].confidence, similarity_threshold)

\* What the iteration of a caption below the threshold leaves: its own text
\* in the new segment and the cursor where it was.
LowStep ==
    (pc = "loop" /\ idx' = idx + 1 /\ branch' = "low")
        => /\ current_pos' = current_pos
           /\ Last(merged_segments').text = Strip(Get(captions[idx + 1], "text", <<>>))

\* What the output holds for the captions below the threshold: their own text
\* and the low-confidence indicator.
LowLines ==
    (Returned /\ merge_result = "true")
        => \A i \in 1..Len(merged_segments) :
              BelowThreshold(i)
                  => /\ BodyLines[i].text = Strip(Get(Spoken[i], "text", <<>>))
                     /\ BodyLines[i].glyph = "low"

C8_LowConfidenceNeverBlocks ==
    (Returned /\ captions # <<>> /\ transcript # <<>>)
        => /\ merge_result = "true"
           /\ merged_file.exists
           /\ SubSeq(merged_file.content, 1, Len(Banner)) = Banner

\* A merge that returned with every caption below the threshold.
C8_Witness ==
    /\ Returned
    /\ merge_result = "true"
    /\ Len(merged_segments) = MaxLines
    /\ \A i \in 1..Len(merged_segments) : BelowThreshold(i)

MergeNeverFails ==
    Status(JobId) = "merging_transcripts"
        => Status(JobId)' \in {"merging_transcripts", "summarizing"}

\* After a merge that returned false or raised, the task summarizes the
\* transcript of the speech-to-text service.
FailedMergeFallsBack ==
    (pc = "upload" /\ merge_result # "true")
        => /\ Status(JobId) = "summarizing"
           /\ task.final_transcript_path = "transcript.txt"
           /\ ~task.merge_success

\* C9: a merge that returns false or raises never fails the job: the task falls
\* back to the unmerged transcript and the job goes from merging_transcripts to
\* summarizing.
C9_MergeFailureNeverFailsJob == [][MergeNeverFails]_vars /\ []FailedMergeFallsBack

\* The job is summarizing after a merge that raised.
C9_Witness ==
    /\ pc = "upload"
    /\ merge_result = "raised"
    /\ Status(JobId) = "summarizing"

(***************************************************************************)
(* Properties of the written output, checked under MergerSpec.             *)
(***************************************************************************)
\* The lines of the output after the banner.
AfterBanner == SubSeq(merged_file.content, Len(Banner) + 1, Len(merged_file.content))

\* How many of the first i lines after the banner are body lines.
BodyCount(i) == Cardinality({j \in 1..i : AfterBanner[j].w = "body"})

\* Segment k begins a run: it is the first one emitted, or its speaker is not
\* the speaker of the segment emitted before it.
SpeakerChanges(k) ==
    k = 1 \/ merged_segments[k].speaker # merged_segments[k - 1].speaker

\* C11: in a written output every emitted segment has its body line, the line
\* is preceded by the header of its speaker exactly when the segment is the
\* first one emitted or its speaker differs from the speaker of the segment
\* emitted before it, and every header is followed by a body line.
C11_HeaderOnSpeakerChange ==
    (Returned /\ merge_result = "true") =>
        /\ Len(BodyLines) = Len(merged_segments)
        /\ \A i \in 1..Len(AfterBanner) :
              /\ AfterBanner[i].w \in {"header", "body"}
              /\ AfterBanner[i].w = "header" =>
                    (i < Len(AfterBanner) /\ AfterBanner[i + 1].w = "body")
              /\ AfterBanner[i].w = "body" =>
                    LET k == BodyCount(i)
                        headed == /\ i > 1
                                  /\ AfterBanner[i - 1].w = "header"
                                  /\ AfterBanner[i - 1].speaker =
                                         merged_segments[k].speaker
                    IN  headed <=> SpeakerChanges(k)

\* Two segments of one speaker were emitted one after the other, and the
\* output has one header for both.
C11_Witness ==
    /\ Returned
    /\ merge_result = "true"
    /\ Len(merged_segments) = 2
    /\ ~SpeakerChanges(2)
    /\ Len(AfterBanner) = 3
    /\ AfterBanner[1].w = "header"

\* The header lines of the output carrying the given name.
HeadersOf(name) ==
    {i \in 1..Len(merged_file.content) :
        /\ merged_file.content[i].w = "header"
        /\ merged_file.content[i].speaker = name}

\* Every line of the captions file is a caption event with a timestamp
\* below the given second.
CaptionsAllBefore(second) ==
    /\ captions_file.exists
    /\ Len(captions_file.content) > 0
    /\ \A i \in 1..Len(captions_file.content) :
          LET line == captions_file.content[i]
          IN  /\ line.kind = "object"
              /\ "timestamp" \in DOMAIN line.value
              /\ line.value.timestamp < second

\* C12: for a transcript whose first block is SPEAKER_00 from 20 s to 25 s and
\* captions all timed before 10 s, the merge succeeds and the output labels
\* that block with the literal SPEAKER_00.
C12_NoOverlapFallsBackToSpeakerId ==
    (/\ Returned
     /\ similarity_threshold = DefaultThreshold
     /\ transcript_file = File(TextTwoBlocks)
     /\ CaptionsAllBefore(10))
        => /\ merge_result = "true"
           /\ merged_file.exists
           /\ HeadersOf("SPEAKER_00") # {}

\* The caption has a timestamp that is not negative.
TimedFromZero(caption) ==
    "timestamp" \in DOMAIN caption /\ caption.timestamp >= 0

\* C13: a caption with a negative timestamp contributes nothing to the
\* attribution: every speaker name in a written output is the name of a
\* loaded caption whose timestamp is not negative.
C13_NegativeTimestampNeverAttributes ==
    (Returned /\ merge_result = "true") =>
        \A i \in 1..Len(merged_file.content) :
            merged_file.content[i].w = "header" =>
                \E k \in 1..Len(captions) :
                    /\ Get(captions[k], "speaker", "Unknown") =
                           merged_file.content[i].speaker
                    /\ TimedFromZero(captions[k])

\* The names in the headers of the output.
HeaderNames ==
    {merged_file.content[i].speaker :
        i \in {j \in 1..Len(merged_file.content) :
                  merged_file.content[j].w = "header"}}

\* The votes a name gets for the one block of TextE2E, which lasts from 0 s to
\* 10 s: the loaded captions of that name timed inside the block.
Votes(name) ==
    Cardinality({k \in 1..Len(captions) :
                    /\ Get(captions[k], "speaker", "Unknown") = name
                    /\ TimedFromZero(captions[k])
                    /\ captions[k].timestamp <= 10})

\* Every loaded caption is timed inside the block of TextE2E.
AllVote ==
    /\ Len(captions) > 0
    /\ \A k \in 1..Len(captions) :
          TimedFromZero(captions[k]) /\ captions[k].timestamp <= 10

\* C14: when every caption votes for the one speaker id of the transcript, the
\* output shows that speaker under one name, and no caption's name has more
\* votes than it.
C14_OneWinnerPerSpeakerId ==
    (/\ Returned
     /\ merge_result = "true"
     /\ transcript_file = File(TextE2E)
     /\ AllVote)
        => /\ Cardinality(HeaderNames) <= 1
           /\ \A name \in HeaderNames :
                 \A k \in 1..Len(captions) :
                     Votes(name) >= Votes(Get(captions[k], "speaker", "Unknown"))

\* The text of a transcript in the primary format without its block headers:
\* a line that begins with "[" is the header of a block, the lines after it
\* are its text.
BlockTexts(text) ==
    LET line_start(i) ==
            LET feeds == {j \in 1..(i - 1) : text[j] = "\n"}
            IN  IF feeds = {} THEN 1
                ELSE 1 + CHOOSE j \in feeds : \A k \in feeds : k <= j
        marked == [i \in 1..Len(text) |->
                      [char |-> text[i],
                       kept |-> text[i] = "\n" \/ text[line_start(i)] # "["]]
        kept == SelectSeq(marked, LAMBDA m : m.kept)
    IN  [i \in 1..Len(kept) |-> kept[i].char]

\* C15: before any caption is aligned, a transcript of two blocks has been
\* parsed into its two segments in source order: what the captions are aligned
\* against is the text of the first block and then of the second, and no
\* word of a block header.
C15_SegmentsParsedBeforeAlignment ==
    (pc = "loop" /\ idx = 0 /\ transcript_file = File(TextTwoBlocks))
        => TranscriptWords =
               Split(clean_text(BlockTexts(transcript_file.content)))

(***************************************************************************)
(* Properties of the service, checked under Spec.                          *)
(***************************************************************************)
\* The events of the lines of the captions file, first line first.
StoredEvents ==
    [i \in 1..Len(captions_file.content) |-> captions_file.content[i].value]

\* C16: the captions file only grows, by one line of one event at its end,
\* and no step changes or removes a line it holds; the merge loads the events
\* in the order of the lines, which is the order of arrival.
C16_AppendOnlyInArrivalOrder ==
    [][/\ captions_file' # captions_file =>
             /\ captions_file'.exists
             /\ \E event \in CaptionEvents :
                   captions_file'.content =
                       Append(captions_file.content, ObjectLine(event))
       /\ (pc = "load_data" /\ pc' = "merge" /\ captions_file.exists) =>
             captions' = StoredEvents]_vars

\* Two different events arrived one after the other and the merge has loaded
\* both, the earlier one first.
C16_Witness ==
    /\ pc = "merge"
    /\ Len(captions_file.content) = 2
    /\ captions_file.content[1] # captions_file.content[2]
    /\ captions = StoredEvents

\* C17: a completed job has had the merge called exactly once, and the merge
\* is called only when the recorder has stopped and the transcription has
\* written the transcript.
C17_CompletedJobMergedOnce ==
    /\ Status(JobId) = "completed" => task.merge_calls = 1
    /\ task.merge_calls > 0 =>
          (task.recorder # "running" /\ transcript_file.exists)

(***************************************************************************)
(* Properties of repeated merges, checked under RerunSpec.                 *)
(***************************************************************************)
\* The title lines of a file's content.
TitleLines(content) == {i \in 1..Len(content) : content[i].w = "title"}

\* C18: a merge that writes the output writes it whole: the file then begins
\* with the banner and holds one banner, whatever it held before; and a
\* second merge on the same inputs leaves the content the first one wrote.
C18_WrittenWholeAndIdempotent ==
    [][/\ merged_file' # merged_file =>
             /\ Len(merged_file'.content) >= Len(Banner)
             /\ SubSeq(merged_file'.content, 1, Len(Banner)) = Banner
             /\ Cardinality(TitleLines(merged_file'.content)) = 1
       /\ (task.merge_calls >= 2 /\ pc = "loop" /\ pc' = "returned") =>
             merged_file' = merged_file]_vars

\* The second merge on the same inputs has returned true and the output holds
\* the banner and the lines of a segment.
C18_Witness ==
    /\ Returned
    /\ task.merge_calls = 2
    /\ merge_result = "true"
    /\ merged_file.exists
    /\ Len(merged_file.content) > Len(Banner)
    /\ Cardinality(TitleLines(merged_file.content)) = 1

(***************************************************************************)
(* Properties of the alignment, checked under MergerSpec.                  *)
(***************************************************************************)
\* The caption the next iteration of the loop takes, stripped, and the number
\* of its normalized words.
NextCaptionText == Strip(Get(captions[idx + 1], "text", <<>>))
NextWordCount == Len(Split(clean_text(NextCaptionText)))

\* The 0-based positions of the spans of NextWordCount words that start in
\* the window of the cursor and end at or before the last transcript word.
FittingSpans ==
    {p \in current_pos..(current_pos + WindowSize - 1) :
        p + NextWordCount <= Len(TranscriptWords)}

\* The ratio of the next caption against the span at p.
SpanScore(p) ==
    ratio(clean_text(NextCaptionText),
          Join(SubSeq(TranscriptWords, p + 1, p + NextWordCount)))

\* C19: for a caption with at least one word and a span that fits, the search
\* returns a fitting span, the span ending at the last transcript word being
\* one of them; no fitting span has a higher ratio than the returned one, and
\* every earlier fitting span has a lower one.
C19_BestOverEveryFittingSpan ==
    [][(/\ pc = "loop"
        /\ idx' = idx + 1
        /\ branch' # "skipped"
        /\ NextWordCount >= 1
        /\ FittingSpans # {})
          => /\ match_pos' \in FittingSpans
             /\ AtLeast(similarity', SpanScore(match_pos'))
             /\ AtLeast(SpanScore(match_pos'), similarity')
             /\ \A p \in FittingSpans :
                   /\ ~Greater(SpanScore(p), similarity')
                   /\ p < match_pos' => Greater(similarity', SpanScore(p))]_vars

\* The whitespace-separated tokens of the original transcript that have a
\* normalized form: the k-th of them is the source of the k-th transcript word.
OriginalWords ==
    SelectSeq(Split(transcript), LAMBDA token : clean_text(token) # <<>>)

\* C20: after a caption was matched, the text recovered from the transcript
\* consists of exactly the original words of the matched window, from the
\* match position for the caption's number of words, also when the
\* transcript has tokens of punctuation only.
C20_RecoveredTextIsMatchedWindow ==
    (pc \in {"loop", "returned"} /\ branch = "matched")
        => Split(matched_text(transcript, match_pos, LastWordCount))
               = SubSeq(OriginalWords, match_pos + 1, match_pos + LastWordCount)

(***************************************************************************)
(* Properties of the job registry, checked under Spec.                     *)
(***************************************************************************)
\* stop_meeting, lines 101-106: what POST /stop-meeting/{job_id} answers.
stop_reply(job_id) ==
    IF job_id \notin DOMAIN jobs THEN "404 Job not found"
    ELSE IF jobs[job_id].status \in {"starting_browser", "navigating", "recording"}
    THEN "Stop signal sent to bot."
    ELSE "Bot is not in an active state."

\* get_transcript: what GET /transcript/{job_id} answers: the merged
\* transcript when the record names one and the file exists, else the
\* transcript of the speech-to-text service, else an error.
get_transcript(job_id) ==
    IF job_id \notin DOMAIN jobs THEN "404 Job not found"
    ELSE IF jobs[job_id].status # "completed" THEN "400 Job not complete"
    ELSE IF Get(jobs[job_id], "merged_transcript_path", None) # None
            /\ merged_file.exists
    THEN "merged_transcript.txt"
    ELSE IF Get(jobs[job_id], "transcript_path", None) = None
            \/ ~transcript_file.exists
    THEN "404 Transcript file not found"
    ELSE "transcript.txt"

\* C21: a stop that stop_meeting accepted is not lost: the status stays
\* stopping until the monitoring loop has seen it and the task has left the
\* meeting (the task is past its finally block), unless the job fails.
C21_StopNotLost ==
    [][(Status(JobId) = "stopping" /\ Status(JobId)' # "stopping")
          => (pc = "post" \/ Status(JobId)' = "failed")]_vars

\* C22: a round of the Teams monitoring loop that finds a phrase saying the
\* meeting has ended ends the loop: the task is never back in the loop after
\* such a round.
C22_TeamsLeavesWhenMeetingEnded ==
    ~(pc = "monitor" /\ task.platform = "teams" /\ task.ended_detected)

\* C23: a caption for a job that is not in the registry or is completed is not
\* written, and the captions file does not change once the merge of the job
\* has been called.
C23_NoCaptionAfterMergeStarted ==
    [][(\/ JobId \notin DOMAIN jobs
        \/ Status(JobId) = "completed"
        \/ task.merge_calls > 0)
          => captions_file' = captions_file]_vars

\* C24: every caption the observer forwards for a job in the registry is
\* saved as one more line of the captions file.
C24_ForwardedCaptionIsSaved ==
    [][(task.forwarded' = task.forwarded + 1 /\ JobId \in DOMAIN jobs)
          => /\ captions_file'.exists
             /\ Len(captions_file'.content) = Len(captions_file.content) + 1]_vars

\* The record of the job names a merged transcript.
MergedRecorded ==
    Get(jobs[JobId], "merged_transcript_path", None) # None

\* C25: for a completed job the record names a merged transcript exactly when
\* the merge of the job returned true, and the transcript endpoint serves the
\* merged transcript when it is named and exists and the transcript of the
\* speech-to-text service otherwise; for a job that is not completed it
\* serves no file.
C25_MergedTranscriptServedWhenRecorded ==
    IF Status(JobId) = "completed"
    THEN /\ MergedRecorded <=> merge_result = "true"
         /\ get_transcript(JobId) =
                IF MergedRecorded /\ merged_file.exists
                THEN "merged_transcript.txt" ELSE "transcript.txt"
    ELSE get_transcript(JobId) \in {"404 Job not found", "400 Job not complete"}

\* A job whose merge returned true is completed and is served its merged
\* transcript.
C25_Witness ==
    /\ Status(JobId) = "completed"
    /\ merge_result = "true"
    /\ get_transcript(JobId) = "merged_transcript.txt"

\* C26: once the status of a job is failed or completed, no step changes the
\* record of the job.
C26_TerminalStatusStable ==
    [][Status(JobId) \in {"failed", "completed"} => jobs' = jobs]_vars

(***************************************************************************)
(* Properties of the search window, checked under WindowSpec.              *)
(***************************************************************************)

\* C27: over the captions of one merge the cursor never decreases and never
\* exceeds the number of normalized transcript words, and an accepted match
\* lies at a position p with cursor <= p < cursor + 50, for the cursor the
\* search started from.
C27_CursorMonotoneAndMatchInWindow ==
    [][(pc = "loop" /\ idx' = idx + 1)
        => /\ current_pos' >= current_pos
           /\ current_pos' <= Len(TranscriptWords)
           /\ branch' = "matched"
                  => (current_pos <= match_pos' /\ match_pos' < current_pos + 50)]_vars

\* A caption was accepted at the last position of the window of a search that
\* started at 0, and moved the cursor behind it.
C27_Witness ==
    /\ pc = "loop"
    /\ branch = "matched"
    /\ idx = 1
    /\ match_pos = 49
    /\ current_pos = 50
    /\ Len(TranscriptWords) > 50

(***************************************************************************)
(* Termination of a job, checked under Spec.                               *)
(***************************************************************************)
\* The meeting is over and the recorder has exited, the job is neither
\* completed nor failed, and no step of the task changes anything: every
\* round of the monitoring loop leaves the task where it is, so the job
\* keeps its status until somebody calls stop_meeting.
MonitoringForEver ==
    /\ pc = "monitor"
    /\ task.page \in PagesOver
    /\ task.recorder = "exited"
    /\ Status(JobId) \notin {"completed", "failed"}
    /\ ~ENABLED <<TaskStep>>_vars

\* C28: a job that start_meeting accepted goes on to completed or failed, on
\* every platform, once the meeting is over: its task is never left in a
\* monitoring loop whose rounds change nothing.
C28_EveryJobTerminates == ~MonitoringForEver

(***************************************************************************)
(* The lines of the output against the captions, checked under MergerSpec. *)
(***************************************************************************)
\* The captions whose text is not blank, in arrival order.
SpokenCaptions ==
    SelectSeq(captions, LAMBDA c : Strip(Get(c, "text", <<>>)) # <<>>)

\* The number of lines of the file that one write of a body line fills: the
\* text is written as it is, followed by the indicator and a line feed.
PhysicalLines(line) ==
    1 + Cardinality({i \in 1..Len(line.text) : line.text[i] = "\n"})

\* A caption with blank text yields no segment and leaves the cursor.
BlankCaptionSkipped ==
    (pc = "loop" /\ idx' = idx + 1
        /\ Strip(Get(captions[idx + 1], "text", <<>>)) = <<>>)
    => (merged_segments' = merged_segments /\ current_pos' = current_pos)

\* The written output has one line for every caption with text, in order and
\* of the caption's speaker.
OneLinePerSpokenCaption ==
    (Returned /\ merge_result = "true") =>
        /\ Len(BodyLines) = Len(SpokenCaptions)
        /\ Len(merged_segments) = Len(SpokenCaptions)
        /\ \A i \in 1..Len(BodyLines) :
              /\ PhysicalLines(BodyLines[i]) = 1
              /\ merged_segments[i].speaker = Get(SpokenCaptions[i], "speaker", "Unknown")
              /\ merged_segments[i].timestamp = Get(SpokenCaptions[i], "timestamp", "")

\* C29: a merge that returns true has written exactly one body line for every
\* caption whose text is not blank, in arrival order and under the speaker of
\* the caption ('Unknown' without one); a caption with blank text yields no
\* line and does not move the cursor.
C29_OneBodyLinePerSpokenCaption ==
    [][BlankCaptionSkipped]_vars /\ []OneLinePerSpokenCaption

(***************************************************************************)
(* The effect of stop_meeting, checked under Spec.                         *)
(***************************************************************************)
ActiveStatuses == {"starting_browser", "navigating", "recording"}

InactiveStatuses ==
    {"pending", "stopping", "transcribing", "merging_transcripts", "summarizing",
     "completed", "failed"}

\* What a call of stop_meeting does to the registry.
StopEffect ==
    /\ Status(JobId) \in ActiveStatuses \cup InactiveStatuses \cup {"none"}
    /\ Status(JobId) \in ActiveStatuses =>
          /\ jobs' = [jobs EXCEPT ![JobId].status = "stopping"]
          /\ stop_reply(JobId) = "Stop signal sent to bot."
    /\ Status(JobId) \in InactiveStatuses =>
          /\ jobs' = jobs
          /\ stop_reply(JobId) = "Bot is not in an active state."
    /\ JobId \notin DOMAIN jobs =>
          /\ jobs' = jobs
          /\ stop_reply(JobId) = "404 Job not found"

\* C30: stop_meeting changes the record of a job only when its status is
\* starting_browser, navigating or recording, and then sets the status to
\* stopping; with any other status it leaves the record as it is, and for a
\* job that is not in the registry it answers not found and adds no entry.
C30_StopChangesOnlyActiveJob == [][StopMeeting => StopEffect]_vars

\* A stop call has set a job to stopping.
C30_Witness ==
    /\ Status(JobId) = "stopping"
    /\ pc \in AwaitPoints

====
